---- MODULE Spec2Model ----
(***************************************************************************)
(* Session store of the Handora Games API (src/api/main.py): the in-process *)
(* SESSIONS dictionary, the best-effort Supabase mirror of it, and the HTTP *)
(* handlers that read and write both.                                       *)
(*                                                                          *)
(* Python values are encoded as follows.  Optional[T] is a sequence of      *)
(* length at most one: None is <<>>, a present value v is <<v>>.  A dict    *)
(* with string keys is a function whose domain is the set of its keys.  A   *)
(* datetime is a reading of the integer variable clock.                     *)
(***************************************************************************)
EXTENDS Integers, Sequences, FiniteSets, TLC

\* ------------------------------------------------------------------ bounds
MaxWrites == 3         \* requests that change a session, explored by Spec
MaxStarts == 12        \* start_session requests explored by SpecHistory
MaxThreads == 2        \* worker threads, one request each, of SpecConcurrent

VARIABLES
    SESSIONS,       \* the in-process store: a dict in insertion order
    DB,             \* rows of the external "sessions" table, by id
    supabase,       \* TRUE iff the Supabase client was created at import
    clock,          \* what datetime.utcnow() returns next
    issued,         \* number of uuid4() calls made so far
    writes,         \* number of requests that found and changed a session
    ret,            \* the last request and its response
    SESSIONS_down,  \* the in-process store of the same requests run
    DB_down,        \*   against an external store whose every call fails,
    ret_down,       \*   and their last response
    env,            \* names of the environment variables that are set
    app,            \* "importing", "serving", or "crashed" by the import
    gemini_client,  \* TRUE iff genai.Client(...) was created at import
    threads         \* the requests in progress, by worker thread

vars == <<SESSIONS, DB, supabase, clock, issued, writes, ret,
          SESSIONS_down, DB_down, ret_down, env, app, gemini_client, threads>>

\* ------------------------------------------------------------ Python values
None == <<>>
Some(v) == <<v>>

EmptyMap == [k \in {} |-> 0]

\* `x or {}` for an Optional[Dict] x
OrEmptyMap(o) == IF o = None THEN EmptyMap ELSE o[1]

\* `x or 0` for an Optional[int] x
OrZero(o) == IF o = None THEN 0 ELSE o[1]

\* datetime.isoformat(), and pydantic's parse of such a string back to datetime
isoformat(t) == [iso |-> t]
fromisoformat(s) == s.iso

GameKey == {"piano_tiles", "space_invader", "dinosaur"}

\* EventPayload.model_fields.keys()
trait_keys == {"timestamp_ms", "accuracy", "rom_percent", "hit",
               "flex_angle", "reaction_time", "smoothness"}

\* EventPayload(**kw): every field defaults to None
EventPayload(kw) ==
    [k \in trait_keys |-> IF k \in DOMAIN kw THEN Some(kw[k]) ELSE None]

\* FinishPayload(score=sc, **kw)
FinishPayload(sc, kw) ==
    [k \in trait_keys \cup {"score"} |->
        IF k = "score" THEN Some(sc)
        ELSE IF k \in DOMAIN kw THEN Some(kw[k]) ELSE None]

\* BaseModel.model_dump(exclude_none=True)
model_dump_exclude_none(p) ==
    [k \in {f \in DOMAIN p : p[f] # None} |-> p[k][1]]

\* ------------------------------------------------------------- a Python dict
EmptyDict == [keys |-> <<>>, rec |-> <<>>]

Has(S, k) == k \in DOMAIN S.rec

\* S[k] = v: a new key goes last, an existing key keeps its place
DictSet(S, k, v) ==
    [keys |-> IF Has(S, k) THEN S.keys ELSE Append(S.keys, k),
     rec  |-> [x \in DOMAIN S.rec \cup {k} |-> IF x = k THEN v ELSE S.rec[x]]]

\* S[k][f] = v
FieldSet(S, k, f, v) == [S EXCEPT !.rec[k][f] = v]

\* ------------------------------------------------------- the external table
NoRows == [k \in {} |-> 0]

\* supabase.table("sessions").insert(row).execute()
Insert(D, row) ==
    [x \in DOMAIN D \cup {row.id} |-> IF x = row.id THEN row ELSE D[x]]

\* supabase.table("sessions").update(fields).eq("id", sid).execute():
\* no row with that id, no change
Update(D, sid, fields) ==
    IF sid \in DOMAIN D
    THEN [D EXCEPT ![sid] =
            [c \in DOMAIN D[sid] |->
                IF c \in DOMAIN fields THEN fields[c] ELSE D[sid][c]]]
    ELSE D

\* `if supabase: try: <write> except Exception as e: print(...)`:
\* r is the handler's outcome so far, Dnew the table after the write, ok
\* whether the write goes through.
mirror_raise(r, sb, ok, Dnew) ==
    IF ~sb THEN r
    ELSE IF ok THEN [r EXCEPT !.db = Dnew]
    ELSE [r EXCEPT !.ret = [r.ret EXCEPT !.code = 500, !.body = None]]

mirror(r, sb, ok, Dnew) ==
    IF sb /\ ok THEN [r EXCEPT !.db = Dnew] ELSE r

\* uuid4(): an identifier not returned before (ids are opaque; the n-th call
\* returns n)
uuid4(n) == n + 1

\* raise HTTPException(status_code=404, ...)
NotFound(op, sid) ==
    [op |-> op, sid |-> sid, arg |-> None, code |-> 404, body |-> None,
     store |-> "none", ext |-> <<>>]

\* a response.  Two fields are not part of it and record the environment of
\* a read: store, the store that answered, and ext, whether each select the
\* handler issued went through (Answered sets them)
Ok(op, sid, arg, body) ==
    [op |-> op, sid |-> sid, arg |-> arg, code |-> 200, body |-> body,
     store |-> "mem", ext |-> <<>>]

Answered(r, store, ext) == [r EXCEPT !.store = store, !.ext = ext]

\* ------------------------------------------------------------ the handlers
\* Each handler maps the stores and its inputs to [mem, db, ret]: the
\* in-process store and the table after the call, and the response.

NewSession_scored(now, gk) ==
    [started_at |-> now, finished_at |-> None, game_key |-> gk,
     baseline_by_finger |-> None, events |-> <<>>, score |-> Some(0),
     metrics |-> None]

\* the dict literal of start_session
NewSession(now, gk) ==
    [started_at |-> now, finished_at |-> None, game_key |-> gk,
     baseline_by_finger |-> None, events |-> <<>>, score |-> None,
     metrics |-> None]

start_session(S, D, sb, sid, now, gk, ok) ==
    LET S1 == DictSet(S, sid, NewSession(now, gk))
        row == [id |-> sid,
                game_key |-> gk,
                started_at |-> Some(isoformat(now)),
                score |-> Some(0),
                baseline_by_finger |-> OrEmptyMap(S1.rec[sid].baseline_by_finger),
                metrics |-> OrEmptyMap(S1.rec[sid].metrics),
                finished_at |-> None]
    IN  mirror([mem |-> S1, db |-> D, ret |-> Ok("start_session", sid, gk, sid)],
               sb, ok, Insert(D, row))

set_warmup_baseline(S, D, sb, sid, b, ok) ==
    IF ~Has(S, sid)
    THEN [mem |-> S, db |-> D, ret |-> NotFound("set_warmup_baseline", sid)]
    ELSE IF b # None
    THEN LET S1 == FieldSet(S, sid, "baseline_by_finger", b)
         IN  mirror([mem |-> S1, db |-> D,
                     ret |-> Ok("set_warmup_baseline", sid, b,
                                OrEmptyMap(S1.rec[sid].baseline_by_finger))],
                    sb, ok,
                    Update(D, sid, [baseline_by_finger |-> b[1]]))
    ELSE [mem |-> S, db |-> D,
          ret |-> Ok("set_warmup_baseline", sid, b,
                     OrEmptyMap(S.rec[sid].baseline_by_finger))]

\* list.append; prepend is the list with the element put first instead
prepend(l, e) == <<e>> \o l

append(l, e) == Append(l, e)

\* record_event_setdefault is the handler with SESSIONS.setdefault(session_id,
\* ...) in place of the lookup that raises
record_event_setdefault(S, D, sid, e) ==
    LET S0 == IF Has(S, sid) THEN S
              ELSE DictSet(S, sid, NewSession(0, "piano_tiles"))
        S1 == FieldSet(S0, sid, "events", append(S0.rec[sid].events, e))
    IN  [mem |-> S1, db |-> D,
         ret |-> Ok("record_event", sid, e, Len(S1.rec[sid].events))]

record_event(S, D, sid, e) ==
    IF ~Has(S, sid)
    THEN [mem |-> S, db |-> D, ret |-> NotFound("record_event", sid)]
    ELSE LET S1 == FieldSet(S, sid, "events", append(S.rec[sid].events, e))
         IN  [mem |-> S1, db |-> D,
              ret |-> Ok("record_event", sid, e, Len(S1.rec[sid].events))]

\* the dict comprehension of finish_session; Metrics_unfiltered is the dump
\* itself, without the comprehension's `if k in trait_keys`
Metrics_unfiltered(p) == model_dump_exclude_none(p)

Metrics(p) ==
    LET d == model_dump_exclude_none(p)
    IN  [k \in DOMAIN d \cap trait_keys |-> d[k]]

\* the three assignments to the session of finish_session
Finish_no_score(S, sid, now, p) ==
    LET S1 == FieldSet(S, sid, "finished_at", Some(now))
    IN  FieldSet(S1, sid, "metrics", Some(Metrics(p)))

Finish(S, sid, now, p) ==
    LET S1 == FieldSet(S, sid, "finished_at", Some(now))
        S2 == FieldSet(S1, sid, "score", Some(p["score"][1]))
    IN  FieldSet(S2, sid, "metrics", Some(Metrics(p)))

finish_session(S, D, sb, sid, now, p, ok) ==
    IF ~Has(S, sid)
    THEN [mem |-> S, db |-> D, ret |-> NotFound("finish_session", sid)]
    ELSE LET metrics == Metrics(p)
         IN  mirror([mem |-> Finish(S, sid, now, p), db |-> D,
                     ret |-> Ok("finish_session", sid, p, EventPayload(metrics))],
                    sb, ok,
                    Update(D, sid, [finished_at |-> Some(isoformat(now)),
                                    score |-> Some(p["score"][1]),
                                    metrics |-> metrics]))


\* ---------------------------------------------- the threshold-scoring policy
\* The finish of the threshold-scoring revision, which this revision of
\* main.py no longer holds: it takes no payload, needs a baseline, and scores
\* the recorded events itself.

\* an event counts when it is a hit whose flex angle reaches the baseline
Qualifies(e, b) ==
    /\ e["hit"] = Some(TRUE)
    /\ e["flex_angle"] # None
    /\ \A f \in DOMAIN b : e["flex_angle"][1] >= b[f]

RECURSIVE ThresholdScore(_, _)
ThresholdScore(events, b) ==
    IF events = <<>> THEN 0
    ELSE (IF Qualifies(Head(events), b) THEN 1 ELSE 0)
         + ThresholdScore(Tail(events), b)

\* PreconditionError ("baseline not set"), surfaced as a client error
PreconditionError(op, sid) ==
    [op |-> op, sid |-> sid, arg |-> None, code |-> 400, body |-> None,
     store |-> "none", ext |-> <<>>]

finish_threshold_unchecked(S, D, sb, sid, now, ok) ==
    IF ~Has(S, sid)
    THEN [mem |-> S, db |-> D, ret |-> NotFound("finish_session", sid)]
    ELSE LET sc == ThresholdScore(S.rec[sid].events,
                                  OrEmptyMap(S.rec[sid].baseline_by_finger))
             S1 == FieldSet(S, sid, "finished_at", Some(now))
             S2 == FieldSet(S1, sid, "score", Some(sc))
             S3 == FieldSet(S2, sid, "metrics", Some(EmptyMap))
         IN  mirror([mem |-> S3, db |-> D,
                     ret |-> Ok("finish_session", sid, None, [score |-> sc])],
                    sb, ok,
                    Update(D, sid, [finished_at |-> Some(isoformat(now)),
                                    score |-> Some(sc),
                                    metrics |-> EmptyMap]))

finish_threshold(S, D, sb, sid, now, ok) ==
    IF ~Has(S, sid)
    THEN [mem |-> S, db |-> D, ret |-> NotFound("finish_session", sid)]
    ELSE IF S.rec[sid].baseline_by_finger = None
    THEN [mem |-> S, db |-> D, ret |-> PreconditionError("finish_session", sid)]
    ELSE LET sc == ThresholdScore(S.rec[sid].events,
                                  S.rec[sid].baseline_by_finger[1])
             S1 == FieldSet(S, sid, "finished_at", Some(now))
             S2 == FieldSet(S1, sid, "score", Some(sc))
             S3 == FieldSet(S2, sid, "metrics", Some(EmptyMap))
         IN  mirror([mem |-> S3, db |-> D,
                     ret |-> Ok("finish_session", sid, None, [score |-> sc])],
                    sb, ok,
                    Update(D, sid, [finished_at |-> Some(isoformat(now)),
                                    score |-> Some(sc),
                                    metrics |-> EmptyMap]))

\* ------------------------------------------------------ the language model
\* a string is the sequence of its characters
Whitespace == {" ", "\t", "\n"}

RECURSIVE lstrip(_)
lstrip(str) ==
    IF str # <<>> /\ Head(str) \in Whitespace THEN lstrip(Tail(str)) ELSE str

RECURSIVE rstrip(_)
rstrip(str) ==
    IF str # <<>> /\ str[Len(str)] \in Whitespace
    THEN rstrip(SubSeq(str, 1, Len(str) - 1)) ELSE str

\* str.strip()
strip(str) == rstrip(lstrip(str))

\* `x or ""` for an Optional[str] x
OrEmptyStr(o) == IF o = None THEN <<>> ELSE o[1]

\* raise HTTPException(status_code=code, ...) of analyze_metrics
LLMError(code, resp) ==
    [op |-> "analyze_metrics", sid |-> 0, arg |-> resp, code |-> code,
     body |-> None, store |-> "none", ext |-> <<>>]

\* client is gemini_client; resp is what generate_content does: it raises,
\* or returns a response whose text is resp.text
analyze_metrics(client, resp) ==
    IF ~client THEN LLMError(503, resp)
    ELSE IF resp.raises THEN LLMError(502, resp)
    ELSE Ok("analyze_metrics", 0, resp,
            [analysis |-> strip(OrEmptyStr(resp.text))])

\* ---------------------------------------------------------------- the reads
SessionDetail(baseline, score, game_key, started_at, finished_at) ==
    [baseline_by_finger |-> baseline, score |-> score, game_key |-> game_key,
     started_at |-> started_at, finished_at |-> finished_at]

\* pydantic's validation of an Optional[datetime] field given an ISO string
ParseTime(o) == IF o = None THEN None ELSE Some(fromisoformat(o[1]))

\* supabase.table("sessions").select("*").eq("id", sid).single().execute()
\* inside `try`: the row, or nothing when the call raises (the store is
\* down, or single() finds no row) or returns no data
SelectSingle(D, sb, sid, up) ==
    IF sb /\ up /\ sid \in DOMAIN D THEN Some(D[sid]) ELSE None

DetailOfRow(row) ==
    SessionDetail(Some(row.baseline_by_finger), row.score, Some(row.game_key),
                  ParseTime(row.started_at), ParseTime(row.finished_at))

DetailOfSession(s) ==
    SessionDetail(s.baseline_by_finger, s.score, Some(s.game_key),
                  Some(s.started_at), s.finished_at)

\* ext of a handler that issues selects with outcomes ups
Ext(sb, ups) == IF sb THEN ups ELSE <<>>

get_session_no_raise(S, D, sb, sid, up) ==
    LET row == SelectSingle(D, sb, sid, up)
    IN  IF row # None
        THEN Answered(Ok("get_session", sid, None, DetailOfRow(row[1])),
                      "db", Ext(sb, <<up>>))
        ELSE IF ~Has(S, sid)
        THEN Answered(Ok("get_session", sid, None,
                         SessionDetail(None, None, None, None, None)),
                      "mem", Ext(sb, <<up>>))
        ELSE Answered(Ok("get_session", sid, None, DetailOfSession(S.rec[sid])),
                      "mem", Ext(sb, <<up>>))

get_session(S, D, sb, sid, up) ==
    LET row == SelectSingle(D, sb, sid, up)
    IN  IF row # None
        THEN Answered(Ok("get_session", sid, None, DetailOfRow(row[1])),
                      "db", Ext(sb, <<up>>))
        ELSE IF ~Has(S, sid)
        THEN Answered(NotFound("get_session", sid), "none", Ext(sb, <<up>>))
        ELSE Answered(Ok("get_session", sid, None, DetailOfSession(S.rec[sid])),
                      "mem", Ext(sb, <<up>>))

HistoryLimit == 10

\* the first n elements of a sequence: .limit(n)
Limit(s, n) == SubSeq(s, 1, IF Len(s) < n THEN Len(s) ELSE n)

\* .order("started_at", desc=False): no two rows share a start time
RECURSIVE OrderByStart(_)
OrderByStart(rows) ==
    IF rows = {} THEN <<>>
    ELSE LET first == CHOOSE r \in rows :
                        \A q \in rows :
                            fromisoformat(r.started_at[1])
                                <= fromisoformat(q.started_at[1])
         IN  <<first>> \o OrderByStart(rows \ {first})

\* .select("*").eq("game_key", gk).neq("id", sid)
\*     .order("started_at", desc=False).limit(10)
HistoryQuery(D, gk, sid) ==
    Limit(OrderByStart({D[x] : x \in {y \in DOMAIN D :
                                        D[y].game_key = gk /\ y # sid}}),
          HistoryLimit)

\* the loop over SESSIONS.items() of the in-memory fallback
RECURSIVE HistoryScan(_, _, _, _)
HistoryScan(S, i, gk, sid) ==
    IF i > Len(S.keys) THEN <<>>
    ELSE LET k == S.keys[i]
             s == S.rec[k]
         IN  (IF k # sid /\ s.game_key = gk
              THEN <<[id |-> k, score |-> s.score,
                      started_at |-> Some(isoformat(s.started_at))]>>
              ELSE <<>>)
             \o HistoryScan(S, i + 1, gk, sid)

\* up1, up2: whether the two selects go through
get_session_with_history(S, D, sb, sid, up1, up2) ==
    LET row == SelectSingle(D, sb, sid, up1)
    IN  IF row # None
        THEN Answered(Ok("get_session_with_history", sid, None,
                         [current |-> row[1],
                          history |-> IF up2
                                      THEN HistoryQuery(D, row[1].game_key, sid)
                                      ELSE <<>>]),
                      "db", Ext(sb, <<up1, up2>>))
        ELSE IF ~Has(S, sid)
        THEN Answered(NotFound("get_session_with_history", sid),
                      "none", Ext(sb, <<up1>>))
        ELSE LET sess == S.rec[sid]
             IN  Answered(Ok("get_session_with_history", sid, None,
                    [current |-> [id |-> sid,
                                  game_key |-> sess.game_key,
                                  score |-> sess.score,
                                  baseline_by_finger |-> sess.baseline_by_finger,
                                  metrics |-> sess.metrics,
                                  started_at |-> Some(isoformat(sess.started_at)),
                                  finished_at |->
                                      IF sess.finished_at # None
                                      THEN Some(isoformat(sess.finished_at[1]))
                                      ELSE None],
                     history |-> HistoryScan(S, 1, sess.game_key, sid)]),
                      "mem", Ext(sb, <<up1>>))

\* one round of either loop of get_highscores
Higher(max_by_game, gk, sc) ==
    IF sc # None /\ gk \in DOMAIN max_by_game
       /\ (max_by_game[gk] = None \/ sc[1] > max_by_game[gk][1])
    THEN [max_by_game EXCEPT ![gk] = sc]
    ELSE max_by_game

RECURSIVE ScanRows(_, _, _)
ScanRows(max_by_game, D, ids) ==
    IF ids = {} THEN max_by_game
    ELSE LET x == CHOOSE y \in ids : TRUE
         IN  ScanRows(Higher(max_by_game, D[x].game_key, D[x].score),
                      D, ids \ {x})

RECURSIVE ScanSessions(_, _, _)
ScanSessions(max_by_game, S, i) ==
    IF i > Len(S.keys) THEN max_by_game
    ELSE LET s == S.rec[S.keys[i]]
         IN  ScanSessions(Higher(max_by_game, s.game_key, s.score), S, i + 1)

get_highscores(S, D, sb, up) ==
    LET none == [g \in GameKey |-> None]
        fromdb == IF sb /\ up THEN ScanRows(none, D, DOMAIN D) ELSE none
        fallback == \A g \in GameKey : fromdb[g] = None
        max_by_game == IF fallback THEN ScanSessions(fromdb, S, 1) ELSE fromdb
    IN  Answered(Ok("get_highscores", 0, None,
                    [piano_tiles |-> OrZero(max_by_game["piano_tiles"]),
                     space_invader |-> OrZero(max_by_game["space_invader"]),
                     dinosaur |-> OrZero(max_by_game["dinosaur"])]),
                 IF fallback THEN "mem" ELSE "db", Ext(sb, <<up>>))

\* ------------------------------------------------------------------ inputs
B30 == [f \in {"index"} |-> 30]
WarmupInputs == {None, Some(EmptyMap), Some(B30)}

EventInputs ==
    {EventPayload([hit |-> TRUE, flex_angle |-> 35]),
     EventPayload([reaction_time |-> 200])}

FinishInputs ==
    {FinishPayload(0 - 1, EmptyMap),
     FinishPayload(0, [accuracy |-> 90]),
     FinishPayload(2, [hit |-> TRUE, flex_angle |-> 35])}

\* a request names a session that was created, or one that never was
SessionIds == 1 .. (issued + 1)

\* outcomes of one call to the external store: it goes through, or raises
Outcomes == IF supabase THEN BOOLEAN ELSE {FALSE}

\* ----------------------------------------------------------------- actions
NoRequest ==
    [op |-> "none", sid |-> 0, arg |-> None, code |-> 0, body |-> None,
     store |-> "none", ext |-> <<>>]

\* a worker thread with no request
Idle ==
    [op |-> "none", sid |-> 0, pc |-> "idle", p |-> None, now |-> None,
     pos |-> 0, ext |-> <<>>, ret |-> NoRequest]

\* SESSIONS = {} and the Supabase client, before the first request
InitStores ==
    /\ SESSIONS = EmptyDict
    /\ DB = NoRows
    /\ supabase \in BOOLEAN
    /\ clock = 0
    /\ issued = 0
    /\ writes = 0
    /\ ret = NoRequest
    /\ SESSIONS_down = EmptyDict
    /\ DB_down = NoRows
    /\ ret_down = NoRequest
    /\ threads = [t \in 1 .. MaxThreads |-> Idle]

\* the module imported with GEMINI_API_KEY set, serving requests
Init ==
    /\ InitStores
    /\ env = {"GEMINI_API_KEY"}
    /\ app = "serving"
    /\ gemini_client = TRUE

\* a request to a handler that writes: r is its outcome, rd the outcome of
\* the same request where every call to the external store raises
Write(r, rd) ==
    /\ SESSIONS' = r.mem
    /\ DB' = r.db
    /\ ret' = r.ret
    /\ SESSIONS_down' = rd.mem
    /\ DB_down' = rd.db
    /\ ret_down' = rd.ret
    /\ writes' = IF r.ret.code \in {400, 404} THEN writes ELSE writes + 1
    /\ UNCHANGED <<supabase, env, app, gemini_client, threads>>

\* a request to a handler that only reads
Read(r) ==
    /\ ret' = r
    /\ UNCHANGED <<SESSIONS, DB, supabase, clock, issued, writes,
                   SESSIONS_down, DB_down, ret_down,
                   env, app, gemini_client, threads>>

\* datetime.utcnow() is read once by start_session and once by a
\* finish_session that finds its session; each reading is later than the one
\* before.
StartSession(gk) ==
    /\ \E ok \in Outcomes :
          Write(start_session(SESSIONS, DB, supabase, uuid4(issued), clock, gk, ok),
                start_session(SESSIONS_down, DB_down, supabase, uuid4(issued),
                              clock, gk, FALSE))
    /\ issued' = issued + 1
    /\ clock' = clock + 1

SetWarmupBaseline(sid, b) ==
    /\ \E ok \in Outcomes :
          Write(set_warmup_baseline(SESSIONS, DB, supabase, sid, b, ok),
                set_warmup_baseline(SESSIONS_down, DB_down, supabase, sid, b, FALSE))
    /\ UNCHANGED <<clock, issued>>

RecordEvent(sid, e) ==
    /\ Write(record_event(SESSIONS, DB, sid, e),
             record_event(SESSIONS_down, DB_down, sid, e))
    /\ UNCHANGED <<clock, issued>>

FinishSession(sid, p) ==
    /\ \E ok \in Outcomes :
          Write(finish_session(SESSIONS, DB, supabase, sid, clock, p, ok),
                finish_session(SESSIONS_down, DB_down, supabase, sid, clock, p, FALSE))
    /\ clock' = IF Has(SESSIONS, sid) THEN clock + 1 ELSE clock
    /\ UNCHANGED issued

GetSession(sid) ==
    \E up \in Outcomes : Read(get_session(SESSIONS, DB, supabase, sid, up))

GetSessionWithHistory(sid) ==
    \E up1 \in Outcomes : \E up2 \in (IF up1 THEN Outcomes ELSE {FALSE}) :
        Read(get_session_with_history(SESSIONS, DB, supabase, sid, up1, up2))

GetHighscores ==
    \E up \in Outcomes : Read(get_highscores(SESSIONS, DB, supabase, up))

Next ==
    \/ \E gk \in GameKey : writes < MaxWrites /\ StartSession(gk)
    \/ \E sid \in SessionIds, b \in WarmupInputs :
          writes < MaxWrites /\ SetWarmupBaseline(sid, b)
    \/ \E sid \in SessionIds, e \in EventInputs :
          writes < MaxWrites /\ RecordEvent(sid, e)
    \/ \E sid \in SessionIds, p \in FinishInputs :
          writes < MaxWrites /\ FinishSession(sid, p)
    \/ \E sid \in SessionIds : GetSession(sid)
    \/ \E sid \in SessionIds : GetSessionWithHistory(sid)
    \/ GetHighscores

Spec == Init /\ [][Next]_vars

\* Many sessions of one game, and the history of the oldest and of the
\* newest of them
NextHistory ==
    \/ writes < MaxStarts /\ StartSession("piano_tiles")
    \/ \E sid \in {1, issued} : GetSessionWithHistory(sid)

SpecHistory == Init /\ [][NextHistory]_vars

\* The service configured for the threshold-scoring policy
FinishThreshold(sid) ==
    /\ \E ok \in Outcomes :
          Write(finish_threshold(SESSIONS, DB, supabase, sid, clock, ok),
                finish_threshold(SESSIONS_down, DB_down, supabase, sid, clock,
                                 FALSE))
    /\ clock' = IF Has(SESSIONS, sid)
                   /\ SESSIONS.rec[sid].baseline_by_finger # None
                THEN clock + 1 ELSE clock
    /\ UNCHANGED issued

NextThreshold ==
    \/ \E gk \in GameKey : writes < MaxWrites /\ StartSession(gk)
    \/ \E sid \in SessionIds, b \in WarmupInputs :
          writes < MaxWrites /\ SetWarmupBaseline(sid, b)
    \/ \E sid \in SessionIds, e \in EventInputs :
          writes < MaxWrites /\ RecordEvent(sid, e)
    \/ \E sid \in SessionIds : writes < MaxWrites /\ FinishThreshold(sid)
    \/ \E sid \in SessionIds : GetSession(sid)

SpecThreshold == Init /\ [][NextThreshold]_vars

\* The import of the module, from the environment load_dotenv() leaves, and
\* the analysis route of the process the import starts
EnvKeys == {"GEMINI_API_KEY", "GOOGLE_API_KEY"}

InitLLM ==
    /\ InitStores
    /\ env \in SUBSET EnvKeys
    /\ app = "importing"
    /\ gemini_client = FALSE

\* gemini_client = genai.Client(api_key=os.environ["GEMINI_API_KEY"]): the
\* subscript raises KeyError when the variable is not set, and the import of
\* the module ends there
Import ==
    /\ app = "importing"
    /\ IF "GEMINI_API_KEY" \in env
       THEN app' = "serving" /\ gemini_client' = TRUE
       ELSE app' = "crashed" /\ UNCHANGED gemini_client
    /\ UNCHANGED <<SESSIONS, DB, supabase, clock, issued, writes, ret,
                   SESSIONS_down, DB_down, ret_down, env, threads>>

LLMOutcomes ==
    {[raises |-> TRUE, text |-> None],
     [raises |-> FALSE, text |-> None],
     [raises |-> FALSE, text |-> Some(<<" ", "o", "k", "\n">>)]}

AnalyzeMetrics ==
    \E resp \in LLMOutcomes : Read(analyze_metrics(gemini_client, resp))

NextLLM ==
    \/ Import
    \/ app = "serving" /\ AnalyzeMetrics
    \/ \E gk \in GameKey :
          app = "serving" /\ writes < MaxWrites /\ StartSession(gk)
    \/ \E sid \in SessionIds, e \in EventInputs :
          app = "serving" /\ writes < MaxWrites /\ RecordEvent(sid, e)
    \/ \E sid \in SessionIds : app = "serving" /\ GetSession(sid)

SpecLLM == InitLLM /\ [][NextLLM]_vars

\* The process is stopped and started again: the module is imported anew, so
\* SESSIONS is {} again; the external table is a different process and keeps
\* its rows.
Restarted ==
    [op |-> "restart", sid |-> 0, arg |-> None, code |-> 0, body |-> None,
     store |-> "none", ext |-> <<>>]

Restart ==
    /\ SESSIONS' = EmptyDict
    /\ SESSIONS_down' = EmptyDict
    /\ ret' = Restarted
    /\ ret_down' = Restarted
    /\ UNCHANGED <<DB, DB_down, supabase, clock, issued, writes,
                   env, app, gemini_client, threads>>

NextRestart ==
    \/ \E gk \in GameKey : writes < MaxWrites /\ StartSession(gk)
    \/ \E sid \in SessionIds, b \in WarmupInputs :
          writes < MaxWrites /\ SetWarmupBaseline(sid, b)
    \/ \E sid \in SessionIds, e \in EventInputs :
          writes < MaxWrites /\ RecordEvent(sid, e)
    \/ \E sid \in SessionIds, p \in FinishInputs :
          writes < MaxWrites /\ FinishSession(sid, p)
    \/ \E sid \in SessionIds : GetSession(sid)
    \/ \E sid \in SessionIds : GetSessionWithHistory(sid)
    \/ Restart

SpecRestart == Init /\ [][NextRestart]_vars

\* The handlers are plain `def` routes, which FastAPI runs on the workers of
\* a thread pool: several requests are in progress at once and a step of the
\* service is one statement of one of them.  A worker holds its request (op,
\* sid, payload p), the statement it is at (pc), its locals (now, ext) and, once
\* done, its response; pos notes where its event went in the sequence.  Each
\* worker is followed through one request, and the run against the failing
\* external store is not followed here.
Begin(t, op, sid, p) ==
    /\ threads[t].pc = "idle"
    /\ threads' = [threads EXCEPT ![t] =
                     [Idle EXCEPT !.op = op, !.sid = sid, !.p = p,
                                  !.pc = IF op = "get_session" THEN "select"
                                         ELSE "lookup"]]
    /\ UNCHANGED <<SESSIONS, DB, supabase, clock, issued, writes, ret,
                   SESSIONS_down, DB_down, ret_down, env, app, gemini_client>>

\* worker t goes on to statement pc
Goto(t, pc) == threads' = [threads EXCEPT ![t].pc = pc]

\* worker t sends response r
Respond(t, r) ==
    /\ threads' = [threads EXCEPT ![t].pc = "done", ![t].ret = r]
    /\ ret' = r

\* s = SESSIONS.get(session_id); if not s: raise HTTPException(404)
Lookup(t, op, next) ==
    /\ threads[t].op = op /\ threads[t].pc = "lookup"
    /\ IF Has(SESSIONS, threads[t].sid)
       THEN Goto(t, next) /\ UNCHANGED ret
       ELSE Respond(t, Answered(NotFound(op, threads[t].sid), "none",
                                threads[t].ext))
    /\ UNCHANGED <<SESSIONS, DB, supabase, clock, issued, writes,
                   SESSIONS_down, DB_down, ret_down, env, app, gemini_client>>

\* s["events"].append(event.model_dump())
RecordAppend(t) ==
    LET th == threads[t] IN
    /\ th.op = "record_event" /\ th.pc = "append"
    /\ SESSIONS' = FieldSet(SESSIONS, th.sid, "events",
                            append(SESSIONS.rec[th.sid].events, th.p))
    /\ threads' = [threads EXCEPT ![t].pc = "count",
                                  ![t].pos = Len(SESSIONS.rec[th.sid].events) + 1]
    /\ writes' = writes + 1
    /\ UNCHANGED <<DB, supabase, clock, issued, ret,
                   SESSIONS_down, DB_down, ret_down, env, app, gemini_client>>

\* return {"ok": True, "total_events": len(s["events"])}
RecordCount(t) ==
    LET th == threads[t] IN
    /\ th.op = "record_event" /\ th.pc = "count"
    /\ Respond(t, Ok("record_event", th.sid, th.p,
                     Len(SESSIONS.rec[th.sid].events)))
    /\ UNCHANGED <<SESSIONS, DB, supabase, clock, issued, writes,
                   SESSIONS_down, DB_down, ret_down, env, app, gemini_client>>

\* now = datetime.utcnow()
FinishNow(t) ==
    /\ threads[t].op = "finish_session" /\ threads[t].pc = "utcnow"
    /\ threads' = [threads EXCEPT ![t].pc = "finished_at",
                                  ![t].now = Some(clock)]
    /\ clock' = clock + 1
    /\ UNCHANGED <<SESSIONS, DB, supabase, issued, writes, ret,
                   SESSIONS_down, DB_down, ret_down, env, app, gemini_client>>

\* s[f] = v, the statement at pc, and on to next
FinishAssign(t, pc, f, v, next) ==
    /\ threads[t].op = "finish_session" /\ threads[t].pc = pc
    /\ SESSIONS' = FieldSet(SESSIONS, threads[t].sid, f, v)
    /\ Goto(t, next)
    /\ writes' = IF pc = "finished_at" THEN writes + 1 ELSE writes
    /\ UNCHANGED <<DB, supabase, clock, issued, ret,
                   SESSIONS_down, DB_down, ret_down, env, app, gemini_client>>

\* s["finished_at"] = now; s["score"] = payload.score; s["metrics"] = metrics
FinishAssigns(t) ==
    \/ FinishAssign(t, "finished_at", "finished_at", threads[t].now, "score")
    \/ FinishAssign(t, "score", "score", Some(threads[t].p["score"][1]),
                    "metrics")
    \/ FinishAssign(t, "metrics", "metrics", Some(Metrics(threads[t].p)),
                    "mirror")

\* the update of the row under `if supabase: try:`, and the return
FinishMirror(t) ==
    LET th == threads[t]
        metrics == Metrics(th.p)
    IN  /\ th.op = "finish_session" /\ th.pc = "mirror"
        /\ \E ok \in Outcomes :
              LET r == mirror([mem |-> SESSIONS, db |-> DB,
                               ret |-> Ok("finish_session", th.sid, th.p,
                                          EventPayload(metrics))],
                              supabase, ok,
                              Update(DB, th.sid,
                                     [finished_at |-> Some(isoformat(th.now[1])),
                                      score |-> Some(th.p["score"][1]),
                                      metrics |-> metrics]))
              IN  DB' = r.db /\ Respond(t, r.ret)
        /\ UNCHANGED <<SESSIONS, supabase, clock, issued, writes,
                       SESSIONS_down, DB_down, ret_down, env, app, gemini_client>>

\* the select of get_session under `if supabase: try:`
GetSelect(t) ==
    LET th == threads[t] IN
    /\ th.op = "get_session" /\ th.pc = "select"
    /\ \E up \in Outcomes :
          LET row == SelectSingle(DB, supabase, th.sid, up)
          IN  IF row # None
              THEN Respond(t, Answered(Ok("get_session", th.sid, None,
                                          DetailOfRow(row[1])),
                                       "db", Ext(supabase, <<up>>)))
              ELSE /\ threads' = [threads EXCEPT
                                    ![t].pc = "lookup",
                                    ![t].ext = Ext(supabase, <<up>>)]
                   /\ UNCHANGED ret
    /\ UNCHANGED <<SESSIONS, DB, supabase, clock, issued, writes,
                   SESSIONS_down, DB_down, ret_down, env, app, gemini_client>>

\* return SessionDetail(baseline_by_finger=s.get(...), ...)
GetDetail(t) ==
    LET th == threads[t] IN
    /\ th.op = "get_session" /\ th.pc = "detail"
    /\ Respond(t, Answered(Ok("get_session", th.sid, None,
                              DetailOfSession(SESSIONS.rec[th.sid])),
                           "mem", th.ext))
    /\ UNCHANGED <<SESSIONS, DB, supabase, clock, issued, writes,
                   SESSIONS_down, DB_down, ret_down, env, app, gemini_client>>

Workers == 1 .. MaxThreads

NextConcurrent ==
    \/ writes < MaxWrites /\ StartSession("piano_tiles")
    \/ \E t \in Workers, sid \in SessionIds, e \in EventInputs :
          writes < MaxWrites /\ Begin(t, "record_event", sid, e)
    \/ \E t \in Workers, sid \in SessionIds, p \in FinishInputs :
          writes < MaxWrites /\ Begin(t, "finish_session", sid, p)
    \/ \E t \in Workers, sid \in SessionIds : Begin(t, "get_session", sid, None)
    \/ \E t \in Workers : Lookup(t, "record_event", "append")
    \/ \E t \in Workers : RecordAppend(t)
    \/ \E t \in Workers : RecordCount(t)
    \/ \E t \in Workers : Lookup(t, "finish_session", "utcnow")
    \/ \E t \in Workers : FinishNow(t)
    \/ \E t \in Workers : FinishAssigns(t)
    \/ \E t \in Workers : FinishMirror(t)
    \/ \E t \in Workers : GetSelect(t)
    \/ \E t \in Workers : Lookup(t, "get_session", "detail")
    \/ \E t \in Workers : GetDetail(t)

SpecConcurrent == Init /\ [][NextConcurrent]_vars

\* ------------------------------------------------------------ properties
Sessions == DOMAIN SESSIONS.rec
Session(sid) == SESSIONS.rec[sid]

WriteOps == {"start_session", "set_warmup_baseline", "finish_session"}

\* C1: in every reachable state, every session of the in-process store has
\* score and finished_at both absent or both present.
C1_ScoreIffFinished ==
    \A sid \in Sessions :
        (Session(sid).score = None) <=> (Session(sid).finished_at = None)

\* a finish_session has just set both fields of a session
C1_Witness ==
    /\ ret.op = "finish_session" /\ ret.code = 200
    /\ Session(ret.sid).score # None
    /\ Session(ret.sid).finished_at # None

\* C2: once a session is finished, no step changes its finished_at, score
\* or metrics.
C2_SetOnce ==
    [][\A sid \in Sessions :
          Session(sid).finished_at # None =>
              /\ SESSIONS'.rec[sid].finished_at = Session(sid).finished_at
              /\ SESSIONS'.rec[sid].score = Session(sid).score
              /\ SESSIONS'.rec[sid].metrics = Session(sid).metrics]_vars

\* C3: a set_warmup_baseline on an existing session with no mapping or an
\* empty mapping leaves the stored baseline as it was and returns it (a
\* session with no baseline and one with an empty baseline count as alike).
C3_EmptyWarmupIsNoOp ==
    [][(/\ ret'.op = "set_warmup_baseline" /\ ret'.code = 200
        /\ (ret'.arg = None \/ ret'.arg = Some(EmptyMap)))
       => /\ OrEmptyMap(SESSIONS'.rec[ret'.sid].baseline_by_finger)
                = OrEmptyMap(Session(ret'.sid).baseline_by_finger)
          /\ ret'.body = OrEmptyMap(Session(ret'.sid).baseline_by_finger)]_vars

\* C4: after the same requests, the in-process store is the same whether the
\* external store took some, all or none of the writes, and the response of
\* start_session, set_warmup_baseline and finish_session is the same too.
C4_MirrorFailureUnobservable ==
    /\ SESSIONS = SESSIONS_down
    /\ ret.op \in WriteOps => ret = ret_down

\* a finish_session whose write reached the external store, beside the run
\* in which no write ever did
C4_Witness ==
    /\ supabase
    /\ ret.op = "finish_session" /\ ret.code = 200
    /\ ret.sid \in DOMAIN DB
    /\ DB[ret.sid].finished_at # None
    /\ DB_down = NoRows

\* C5: get_session on a session of the in-process store returns the game
\* key, baseline, score and finished_at of the in-process record.
C5_GetReturnsInProcessRecord ==
    (ret.op = "get_session" /\ ret.sid \in Sessions) =>
        /\ ret.code = 200
        /\ ret.body.game_key = Some(Session(ret.sid).game_key)
        /\ ret.body.baseline_by_finger = Session(ret.sid).baseline_by_finger
        /\ ret.body.score = Session(ret.sid).score
        /\ ret.body.finished_at = Session(ret.sid).finished_at

IsPrefix(s, t) == Len(s) <= Len(t) /\ SubSeq(t, 1, Len(s)) = s

\* C6: a record_event that finds its session puts its event last in the
\* session's sequence and returns the new length; no step removes, moves or
\* rewrites an event, and no other step adds one.
C6_AppendOnly ==
    [][\A sid \in Sessions :
          /\ sid \in DOMAIN SESSIONS'.rec
          /\ IsPrefix(Session(sid).events, SESSIONS'.rec[sid].events)
          /\ IF ret'.op = "record_event" /\ ret'.code = 200 /\ ret'.sid = sid
             THEN /\ SESSIONS'.rec[sid].events
                        = Append(Session(sid).events, ret'.arg)
                  /\ ret'.body = Len(Session(sid).events) + 1
             ELSE SESSIONS'.rec[sid].events = Session(sid).events]_vars

\* the second record_event on a session, with an event unlike the first
C6_Witness ==
    /\ ret.op = "record_event" /\ ret.code = 200 /\ ret.body = 2
    /\ Len(Session(ret.sid).events) = 2
    /\ Session(ret.sid).events[1] # Session(ret.sid).events[2]
    /\ Session(ret.sid).events[2] = ret.arg

\* the scores recorded for the sessions of game g
ScoresOf(g) ==
    {Session(sid).score[1] :
        sid \in {x \in Sessions : Session(x).game_key = g
                                   /\ Session(x).score # None}}

MaxScore(g) ==
    IF ScoresOf(g) = {} THEN 0
    ELSE CHOOSE m \in ScoresOf(g) : \A x \in ScoresOf(g) : x <= m

\* C7: get_highscores returns, for each game key, the highest score recorded
\* for a session of that game, and 0 where no session has one.
C7_HighscoresAreMaxima ==
    ret.op = "get_highscores" =>
        \A g \in GameKey : ret.body[g] = MaxScore(g)

\* the start time of a history entry, and the game of the session it names
\* in the store that answered
EntryStart(e) == fromisoformat(e.started_at[1])
EntryGame(e) ==
    IF ret.store = "db" THEN e.game_key ELSE Session(e.id).game_key

\* C8: the history of get_session_with_history leaves out the queried
\* session, has at most 10 entries, is in ascending order of start time and
\* holds only sessions of the queried session's game.
C8_HistoryShape ==
    (ret.op = "get_session_with_history" /\ ret.code = 200) =>
        LET h == ret.body.history
        IN  /\ Len(h) <= 10
            /\ \A i \in 1 .. Len(h) :
                  /\ h[i].id # ret.sid
                  /\ EntryGame(h[i]) = ret.body.current.game_key
            /\ \A i, j \in 1 .. Len(h) :
                  i < j => EntryStart(h[i]) <= EntryStart(h[j])

\* C9: get_session on an id that neither store holds answers not-found.
C9_UnknownIdNotFound ==
    (ret.op = "get_session" /\ ret.sid \notin Sessions
        /\ ret.sid \notin DOMAIN DB) => ret.code = 404

\* not-found from a get_session that reached an external store holding
\* other rows
C9_Witness ==
    /\ ret.op = "get_session" /\ ret.code = 404
    /\ supabase /\ ret.ext = <<TRUE>>
    /\ DOMAIN DB # {}

\* C10: start_session returns an id that names no earlier session, creates
\* under it a session started now, with no score, no baseline and no events,
\* and leaves every other session as it was.
C10_StartCreatesFreshSession ==
    [][ret'.op = "start_session" =>
          /\ ret'.code = 200
          /\ ret'.body \notin Sessions
          /\ ret'.body \in DOMAIN SESSIONS'.rec
          /\ SESSIONS'.rec[ret'.body].started_at = clock
          /\ SESSIONS'.rec[ret'.body].game_key = ret'.arg
          /\ SESSIONS'.rec[ret'.body].score = None
          /\ SESSIONS'.rec[ret'.body].baseline_by_finger = None
          /\ SESSIONS'.rec[ret'.body].events = <<>>
          /\ DOMAIN SESSIONS'.rec = Sessions \cup {ret'.body}
          /\ \A sid \in Sessions : SESSIONS'.rec[sid] = Session(sid)]_vars

\* a start_session beside a session that is already finished
C10_Witness ==
    /\ ret.op = "start_session" /\ ret.code = 200
    /\ \E sid \in Sessions :
          /\ sid # ret.body
          /\ Session(sid).score # None
          /\ Session(sid).started_at # Session(ret.body).started_at

\* C11: under the threshold-scoring policy, a finish_session on a session
\* that has no baseline fails with a precondition error and leaves the
\* session's score and finished_at absent.
C11_FinishNeedsBaseline ==
    [][(/\ ret'.op = "finish_session"
        /\ ret'.sid \in Sessions
        /\ Session(ret'.sid).baseline_by_finger = None)
       => /\ ret'.code = 400
          /\ SESSIONS'.rec[ret'.sid].score = None
          /\ SESSIONS'.rec[ret'.sid].finished_at = None]_vars

\* a refused finish of a session that has events and no baseline
C11_Witness ==
    /\ ret.op = "finish_session" /\ ret.code = 400
    /\ Session(ret.sid).baseline_by_finger = None
    /\ Session(ret.sid).events # <<>>
    /\ Session(ret.sid).score = None
    /\ Session(ret.sid).finished_at = None

\* C12: under the caller-supplied policy a finish_session of an existing
\* session succeeds whether or not a baseline was set, stores exactly the
\* score supplied whatever events were recorded, stores as metrics exactly
\* the event fields the payload gave a value (never the score, never an
\* absent field), and returns those same metrics.
C12_FinishStoresWhatWasGiven ==
    (ret.op = "finish_session" /\ ret.sid \in Sessions)
    => /\ ret.code = 200
       /\ LET p == ret.arg
              s == Session(ret.sid)
              given == {k \in trait_keys : p[k] # None}
          IN  /\ s.finished_at # None
              /\ s.score = Some(p["score"][1])
              /\ s.metrics # None
              /\ DOMAIN s.metrics[1] = given
              /\ \A k \in given : s.metrics[1][k] = p[k][1]
              /\ ret.body = [k \in trait_keys |-> p[k]]

\* a finish with two metric fields, of a session with an event and no baseline
C12_Witness ==
    /\ ret.op = "finish_session" /\ ret.code = 200
    /\ Session(ret.sid).baseline_by_finger = None
    /\ Session(ret.sid).events # <<>>
    /\ Session(ret.sid).score = Some(2)
    /\ DOMAIN Session(ret.sid).metrics[1] = {"hit", "flex_angle"}

\* C13: set_warmup_baseline, record_event and finish_session called with an
\* id that names no session fail with not-found and leave every session and
\* every row of the external store as they were.
C13_UnknownIdWritesNothing ==
    [][(/\ ret'.op \in {"set_warmup_baseline", "record_event", "finish_session"}
        /\ ret'.sid \notin Sessions)
       => /\ ret'.code = 404
          /\ SESSIONS' = SESSIONS
          /\ DB' = DB]_vars

\* a finish refused for an unknown id while a session and a row exist
C13_Witness ==
    /\ ret.op = "finish_session" /\ ret.code = 404
    /\ ret.sid \notin Sessions
    /\ Sessions # {}
    /\ DB # NoRows

\* C15: once a finish_session on a session has succeeded the session is
\* read-only: no later step changes its baseline or its event sequence.
C15_FinishedIsReadOnly ==
    [][\A sid \in Sessions :
          Session(sid).finished_at # None
          => /\ SESSIONS'.rec[sid].baseline_by_finger
                  = Session(sid).baseline_by_finger
             /\ SESSIONS'.rec[sid].events = Session(sid).events]_vars

IdOps ==
    {"get_session", "get_session_with_history", "set_warmup_baseline",
     "record_event", "finish_session"}

\* C16: an operation on a session id answers not-found only when no
\* reachable store holds the id; in particular after a restart, which empties
\* the in-process store and keeps the external one, every operation that
\* takes a session id still finds a session whose row the external store
\* holds and serves.
C16_NotFoundOnlyWhenInNoStore ==
    (ret.op \in IdOps /\ ret.code = 404)
    => ~ (/\ supabase
          /\ ret.sid \in DOMAIN DB
          /\ \A i \in DOMAIN ret.ext : ret.ext[i])

\* C14: with the language-model credential absent from the configuration
\* the service still starts (the import leaves it serving) and
\* analyze_metrics answers service-unavailable; with the credential present
\* and the language-model call raising, analyze_metrics answers with a
\* gateway error.
C14_MissingCredentialDegrades ==
    /\ (env \cap EnvKeys = {} /\ app # "importing") => app = "serving"
    /\ (env \cap EnvKeys = {} /\ ret.op = "analyze_metrics") => ret.code = 503
    /\ (env \cap EnvKeys # {} /\ ret.op = "analyze_metrics" /\ ret.arg.raises)
       => ret.code = 502

\* C17: with requests interleaving at statement granularity, a get_session
\* answered from the in-process store never shows finished_at present and
\* score absent, also while a finish_session of that session is in progress.
C17_GetNeverSeesHalfFinished ==
    (ret.op = "get_session" /\ ret.code = 200 /\ ret.store = "mem")
    => ~ (ret.body.finished_at # None /\ ret.body.score = None)

\* the record_event requests that were answered
Recorded == {t \in Workers : /\ threads[t].op = "record_event"
                             /\ threads[t].pc = "done"
                             /\ threads[t].ret.code = 200}

\* C18: record_event calls on one session that interleave between the append
\* and the count return pairwise distinct total_events, each the position of
\* the call's own event in the sequence.
C18_CountIsOwnPosition ==
    /\ \A t \in Recorded : threads[t].ret.body = threads[t].pos
    /\ \A t, u \in Recorded :
          (t # u /\ threads[t].sid = threads[u].sid)
          => threads[t].ret.body # threads[u].ret.body

====
